---- MODULE Spec2Model ----
(***************************************************************************)
(* Model of the asynchronous PDF pipeline of flowautomate/main-api:        *)
(* upload handler and background extraction (PdfController), the status    *)
(* tracker (PdfService / PdfRepository.updateStatus), the queue producer   *)
(* (RabbitMQService), the broker queue, the queue consumer                 *)
(* (RabbitMQConsumerService) and the indexer (ElasticsearchService).       *)
(*                                                                         *)
(* Every await of the JavaScript code is a separate step: the code up to   *)
(* an await runs atomically (single-threaded event loop), the awaited I/O  *)
(* completes in a later step, with a success or a failure outcome.         *)
(***************************************************************************)
EXTENDS Integers, FiniteSets, Sequences, TLC

\* ---- bounds of the model ----
NumDocs == 1
MaxDeliveries == 2
MaxFaults == 2
MaxBatch == 4
MaxHeaderLen == 3
MaxCols == 2
MaxRows == 2
MaxRowLen == 3
MaxItems == 3
MaxLines == 3

\* ---- program constants ----
MaxReconnectAttempts == 5

Docs == 1..NumDocs

NoError == ""
ErrParse == "parse failed"
ErrDb == "db error"
ErrNotConnected == "RabbitMQ not connected"
ErrRead == "JSON file not found"
ErrEsNotConnected == "Elasticsearch not connected"
ErrNoDocs == "Elasticsearch ingestion failed: No documents to index"
ErrBulk == "bulk failed"

StatusValues == {"none", "queued", "parsing", "transform", "ready", "failed"}

VARIABLES
  server,            \* "boot" until startServer has run, then "listening"
  status,            \* pdfs.status per document ("none": no record yet)
  error,             \* pdfs.error per document (NoError: null)
  task,              \* position of processPdfAsync per document
  jsonFile,          \* <<>>: no JSON file; <<b>>: saved file, b: it has content items
  prodConnected,     \* RabbitMQService.isConnected
  reconnectAttempts, \* RabbitMQService.reconnectAttempts
  prodTimers,        \* pending producer reconnect timers
  prodConns,         \* open producer connections with event handlers
  published,         \* documents whose work message was handed to the broker
  pubThrew,          \* documents whose sendPdfParsedMessage threw
  queue,             \* broker: messages ready for delivery (by document id)
  unacked,           \* broker: the delivered, unsettled message of the channel
  acked,             \* broker: messages removed by an ack
  consConnected,     \* RabbitMQConsumerService.isConnected
  connOpen,          \* consumer connection is open
  chanOpen,          \* this.channel of the consumer is an open channel
  chanTag,           \* last delivery tag used on the consumer's channel
  recon,             \* consumer handleReconnect: "idle", "init", "wait"
  esConnected,       \* ElasticsearchService.isConnected
  handlers,          \* running handleMessage invocations
  deliveries,        \* number of deliveries made so far
  indexRuns,         \* completed bulk index calls per document
  faults,            \* failures of the environment so far (closes, errors)
  response,          \* HTTP response of the upload request per document
  parseThrew,        \* documents whose parseAndSavePDFJSON threw
  indexCopies,       \* copies in the index of the document's last content item
  acceptedRuns,      \* bulk index calls per document the engine accepted in full
  settled,           \* deliveries (by number) the broker settled by an ack or nack
  shutdown,          \* position of close() of the consumer (cons) and producer (prod)
  call,              \* function-level specifications: the call and its inputs
  ret                \* function-level specifications: what the call produced

vars == <<server, status, error, task, jsonFile, prodConnected,
          reconnectAttempts, prodTimers, prodConns, published, pubThrew,
          queue, unacked, acked, consConnected, connOpen, chanOpen, chanTag,
          recon, esConnected, handlers, deliveries, indexRuns, faults,
          response, parseThrew, indexCopies, acceptedRuns, settled, shutdown,
          call, ret>>

lifeVars == <<server, shutdown>>
dbVars == <<status, error>>
prodVars == <<prodConnected, reconnectAttempts, prodTimers, prodConns>>
brokerVars == <<queue, unacked, acked, settled>>
consVars == <<consConnected, connOpen, chanOpen, chanTag, recon>>
uploadVars == <<task, jsonFile, published, pubThrew, response, parseThrew>>
pureVars == <<call, ret>>
pipelineVars == <<server, status, error, task, jsonFile, prodConnected,
                  reconnectAttempts, prodTimers, prodConns, published,
                  pubThrew, queue, unacked, acked, consConnected, connOpen,
                  chanOpen, chanTag, recon, esConnected, handlers, deliveries,
                  indexRuns, faults, response, parseThrew, indexCopies,
                  acceptedRuns, settled, shutdown>>

NoCall == [fn |-> "none"]

InitPipeline ==
  /\ server = "boot"
  /\ status = [d \in Docs |-> "none"]
  /\ error = [d \in Docs |-> NoError]
  /\ task = [d \in Docs |-> "idle"]
  /\ jsonFile = [d \in Docs |-> <<>>]
  /\ prodConnected = FALSE
  /\ reconnectAttempts = 0
  /\ prodTimers = 0
  /\ prodConns = 0
  /\ published = {}
  /\ pubThrew = {}
  /\ queue = {}
  /\ unacked = {}
  /\ acked = {}
  /\ consConnected = FALSE
  /\ connOpen = FALSE
  /\ chanOpen = FALSE
  /\ chanTag = 0
  /\ recon = "idle"
  /\ esConnected = FALSE
  /\ handlers = {}
  /\ deliveries = 0
  /\ indexRuns = [d \in Docs |-> 0]
  /\ faults = 0
  /\ response = [d \in Docs |-> "none"]
  /\ parseThrew = {}
  /\ indexCopies = [d \in Docs |-> 0]
  /\ acceptedRuns = [d \in Docs |-> 0]
  /\ settled = {}
  /\ shutdown = [cons |-> "none", prod |-> "none"]

Init ==
  /\ InitPipeline
  /\ call = NoCall
  /\ ret = NoCall

\* An operation of the environment fails (failed) or succeeds: the model
\* admits MaxFaults failures in one run.
Fault(failed) ==
  /\ failed => faults < MaxFaults
  /\ faults' = IF failed THEN faults + 1 ELSE faults

\* ---- Status tracker ----

\* PdfRepository.updateStatus: the status is always written, the error
\* column only when the error argument is truthy.
updateStatus(d, st, err) ==
  /\ status' = [status EXCEPT ![d] = st]
  /\ error' = [error EXCEPT ![d] = IF err # NoError THEN err ELSE @]

\* ---- Producer: RabbitMQService ----

\* handleReconnect called n times in a row (n = 1, or 2 when both the
\* 'error' and the 'close' handler run): each call that is below the
\* attempt limit counts an attempt and arms one timer.
RECURSIVE ProducerHandleReconnect(_, _, _)
ProducerHandleReconnect(n, attempts, timers) ==
  IF n = 0 THEN <<attempts, timers>>
  ELSE IF attempts >= MaxReconnectAttempts
       THEN ProducerHandleReconnect(n - 1, attempts, timers)
       ELSE ProducerHandleReconnect(n - 1, attempts + 1, timers + 1)

\* RabbitMQService.initialize, with the timers left pending by the caller.
ProducerInitialize(ok, timers) ==
  IF ok
  THEN /\ prodConnected' = TRUE
       /\ reconnectAttempts' = 0
       /\ prodConns' = prodConns + 1
       /\ prodTimers' = timers
  ELSE /\ reconnectAttempts' = ProducerHandleReconnect(1, reconnectAttempts, timers)[1]
       /\ prodTimers' = ProducerHandleReconnect(1, reconnectAttempts, timers)[2]
       /\ UNCHANGED <<prodConnected, prodConns>>

\* The reconnect timer armed by handleReconnect fires and calls initialize.
ProducerTimerFire(ok) ==
  /\ prodTimers > 0
  /\ ProducerInitialize(ok, prodTimers - 1)
  /\ UNCHANGED <<lifeVars, dbVars, uploadVars, brokerVars, consVars,
                 esConnected, handlers, deliveries, indexRuns, indexCopies,
                 acceptedRuns, pureVars, faults>>

\* A producer connection is lost: the 'close' handler runs, preceded by the
\* 'error' handler when the loss is reported as an error.
ProducerConnectionLost(withError) ==
  /\ prodConns > 0
  /\ faults < MaxFaults
  /\ faults' = faults + 1
  /\ prodConns' = prodConns - 1
  /\ prodConnected' = FALSE
  /\ LET n == IF withError THEN 2 ELSE 1
         r == ProducerHandleReconnect(n, reconnectAttempts, prodTimers)
     IN /\ reconnectAttempts' = r[1]
        /\ prodTimers' = r[2]
  /\ UNCHANGED <<lifeVars, dbVars, uploadVars, brokerVars, consVars,
                 esConnected, handlers, deliveries, indexRuns, indexCopies,
                 acceptedRuns, pureVars>>

\* ---- startServer (index.js) ----

\* The three optional services are initialised in turn before the HTTP
\* server listens; a failure of any of them is only logged.
StartServer(pOk, cOk, eOk) ==
  /\ server = "boot"
  /\ server' = "listening"
  /\ ProducerInitialize(pOk, prodTimers)
  /\ consConnected' = cOk
  /\ connOpen' = cOk
  /\ chanOpen' = cOk
  /\ esConnected' = eOk
  /\ UNCHANGED <<shutdown, dbVars, uploadVars, brokerVars, chanTag, recon, handlers,
                 deliveries, indexRuns, indexCopies,
                 acceptedRuns, pureVars, faults>>

\* ---- Upload handler and background task: PdfController ----

\* Mutant of CreatePdf: the handler awaits processPdfAsync before it
\* responds, so the background task starts with no response sent.
CreatePdf_AwaitsProcessing(d) ==
  /\ server = "listening"
  /\ task[d] = "idle"
  /\ \A e \in Docs : e < d => task[e] # "idle"
  /\ status' = [status EXCEPT ![d] = "queued"]
  /\ task' = [task EXCEPT ![d] = "setParsing"]
  /\ UNCHANGED <<lifeVars, error, jsonFile, published, pubThrew, parseThrew,
                 response, prodVars, brokerVars, consVars, esConnected,
                 handlers, deliveries, indexRuns, indexCopies, acceptedRuns,
                 pureVars, faults>>

\* createPdf: the record is created with status 'queued', the response is
\* sent, and processPdfAsync runs up to its first await (the update to
\* 'parsing').
CreatePdf(d) ==
  /\ server = "listening"
  /\ task[d] = "idle"
  /\ \A e \in Docs : e < d => task[e] # "idle"
  /\ status' = [status EXCEPT ![d] = "queued"]
  /\ response' = [response EXCEPT ![d] = "201"]
  /\ task' = [task EXCEPT ![d] = "setParsing"]
  /\ UNCHANGED <<lifeVars, error, jsonFile, published, pubThrew, parseThrew,
                 prodVars,
                 brokerVars, consVars, esConnected, handlers, deliveries,
                 indexRuns, indexCopies,
                 acceptedRuns, pureVars, faults>>

\* The update to 'parsing' completes; on a store error the outer catch
\* starts the update to 'failed'.
SetParsingDone(d, dbOk) ==
  /\ task[d] = "setParsing"
  /\ Fault(~dbOk)
  /\ IF dbOk
     THEN /\ updateStatus(d, "parsing", NoError)
          /\ task' = [task EXCEPT ![d] = "parse"]
     ELSE /\ task' = [task EXCEPT ![d] = "setFailedDb"]
          /\ UNCHANGED dbVars
  /\ UNCHANGED <<lifeVars, jsonFile, published, pubThrew, response, parseThrew,
                 prodVars, brokerVars,
                 consVars, esConnected, handlers, deliveries, indexRuns, indexCopies,
                 acceptedRuns, pureVars>>

\* RabbitMQService.sendMessage: throws unless connected, else publishes.
\* channel.publish returns false when the channel's write buffer is full;
\* the frame is buffered all the same, and the value that sendMessage
\* returns is not looked at by processPdfAsync.
\* After close() has closed the channel, publish throws on it.
sendMessageThrows == ~prodConnected \/ shutdown.prod = "connectionClose"

\* Mutant of ParseDone: an error of sendPdfParsedMessage is only logged
\* and the task ends.
ParseDone_PublishErrorIgnored(d, ok, hasItems) ==
  /\ task[d] = "parse"
  /\ Fault(~ok)
  /\ IF ~ok
     THEN /\ task' = [task EXCEPT ![d] = "setFailedParse"]
          /\ parseThrew' = parseThrew \cup {d}
          /\ UNCHANGED <<jsonFile, published, pubThrew, queue>>
     ELSE /\ jsonFile' = [jsonFile EXCEPT ![d] = <<hasItems>>]
          /\ UNCHANGED parseThrew
          /\ task' = [task EXCEPT ![d] = "done"]
          /\ IF sendMessageThrows
             THEN /\ pubThrew' = pubThrew \cup {d}
                  /\ UNCHANGED <<published, queue>>
             ELSE /\ published' = published \cup {d}
                  /\ queue' = queue \cup {d}
                  /\ UNCHANGED pubThrew
  /\ UNCHANGED <<lifeVars, dbVars, response, prodVars, unacked, acked, settled, consVars,
                 esConnected, handlers, deliveries, indexRuns, indexCopies,
                 acceptedRuns, pureVars>>

\* parseAndSavePDFJSON completes. On success the JSON file exists (hasItems:
\* it holds at least one content item) and sendPdfParsedMessage runs in the
\* same turn: it either publishes the work message or throws, and then the
\* inner catch starts the update to 'failed'. On a parse error the outer
\* catch does.
ParseDone(d, ok, hasItems) ==
  /\ task[d] = "parse"
  /\ Fault(~ok)
  /\ IF ~ok
     THEN /\ task' = [task EXCEPT ![d] = "setFailedParse"]
          /\ parseThrew' = parseThrew \cup {d}
          /\ UNCHANGED <<jsonFile, published, pubThrew, queue>>
     ELSE /\ jsonFile' = [jsonFile EXCEPT ![d] = <<hasItems>>]
          /\ UNCHANGED parseThrew
          /\ IF sendMessageThrows
             THEN /\ pubThrew' = pubThrew \cup {d}
                  /\ task' = [task EXCEPT ![d] = "setFailedPub"]
                  /\ UNCHANGED <<published, queue>>
             ELSE /\ published' = published \cup {d}
                  /\ queue' = queue \cup {d}
                  /\ task' = [task EXCEPT ![d] = "done"]
                  /\ UNCHANGED pubThrew
  /\ UNCHANGED <<lifeVars, dbVars, response, prodVars, unacked, acked, settled, consVars,
                 esConnected, handlers, deliveries, indexRuns, indexCopies,
                 acceptedRuns, pureVars>>

\* The error message the pending update to 'failed' carries.
taskError(d) ==
  CASE task[d] = "setFailedPub" -> ErrNotConnected
    [] task[d] = "setFailedParse" -> ErrParse
    [] task[d] = "setFailedDb" -> ErrDb
    [] OTHER -> NoError

\* Mutant of TaskSetFailedDone: the status is set to 'failed' without the
\* error message.
TaskSetFailedDone_ErrorDropped(d, dbOk) ==
  /\ task[d] \in {"setFailedPub", "setFailedParse", "setFailedDb"}
  /\ Fault(~dbOk)
  /\ IF dbOk
     THEN /\ updateStatus(d, "failed", NoError)
          /\ task' = [task EXCEPT ![d] = "done"]
     ELSE /\ task' = [task EXCEPT ![d] =
                        IF task[d] = "setFailedPub" THEN "setFailedDb" ELSE "rejected"]
          /\ UNCHANGED dbVars
  /\ UNCHANGED <<lifeVars, jsonFile, published, pubThrew, response, parseThrew,
                 prodVars, brokerVars, consVars, esConnected, handlers,
                 deliveries, indexRuns, indexCopies, acceptedRuns, pureVars>>

\* An update to 'failed' of processPdfAsync completes. A store error in the
\* inner catch is caught by the outer catch, which tries once more; a
\* store error in the outer catch ends the task with a rejected promise.
TaskSetFailedDone(d, dbOk) ==
  /\ task[d] \in {"setFailedPub", "setFailedParse", "setFailedDb"}
  /\ Fault(~dbOk)
  /\ IF dbOk
     THEN /\ updateStatus(d, "failed", taskError(d))
          /\ task' = [task EXCEPT ![d] = "done"]
     ELSE /\ task' = [task EXCEPT ![d] =
                        IF task[d] = "setFailedPub" THEN "setFailedDb" ELSE "rejected"]
          /\ UNCHANGED dbVars
  /\ UNCHANGED <<lifeVars, jsonFile, published, pubThrew, response, parseThrew,
                 prodVars, brokerVars,
                 consVars, esConnected, handlers, deliveries, indexRuns, indexCopies,
                 acceptedRuns, pureVars>>

\* ---- Consumer: RabbitMQConsumerService ----

\* The broker closes a channel: its unsettled delivery goes back to the queue.
BrokerRequeueUnacked ==
  /\ queue' = queue \cup unacked
  /\ unacked' = {}

\* The consumer's channel is closed while its connection stays open (a
\* channel error raised by the broker). The 'close' handler of the channel
\* calls handleReconnect, which returns at once because isConnected is
\* still true.
ConsumerChannelClose ==
  /\ chanOpen
  /\ faults < MaxFaults
  /\ faults' = faults + 1
  /\ chanOpen' = FALSE
  /\ BrokerRequeueUnacked
  /\ UNCHANGED <<lifeVars, dbVars, uploadVars, prodVars, acked, settled, consConnected,
                 connOpen, chanTag, recon, esConnected, handlers, deliveries,
                 indexRuns, indexCopies,
                 acceptedRuns, pureVars>>

\* The consumer's connection is closed: its channel closes with it (the
\* channel's 'close' handler runs first and returns, isConnected being
\* true), then the connection's 'close' handler clears isConnected and
\* calls handleReconnect, which runs initialize up to its first await.
ConsumerConnectionClose ==
  /\ connOpen
  /\ faults < MaxFaults
  /\ faults' = faults + 1
  /\ connOpen' = FALSE
  /\ chanOpen' = FALSE
  /\ BrokerRequeueUnacked
  /\ consConnected' = FALSE
  /\ recon' = "init"
  /\ UNCHANGED <<lifeVars, dbVars, uploadVars, prodVars, acked, settled, chanTag,
                 esConnected, handlers, deliveries, indexRuns, indexCopies,
                 acceptedRuns, pureVars>>

\* initialize called by handleReconnect completes: on success a new
\* connection and channel exist, prefetch(1) is set and the consumer is
\* registered; on failure a retry timer is armed.
ConsumerInitializeDone(ok) ==
  /\ recon = "init"
  /\ Fault(~ok)
  /\ IF ok
     THEN /\ connOpen' = TRUE
          /\ chanOpen' = TRUE
          /\ chanTag' = 0
          /\ consConnected' = TRUE
          /\ recon' = "idle"
     ELSE /\ recon' = "wait"
          /\ UNCHANGED <<connOpen, chanOpen, chanTag, consConnected>>
  /\ UNCHANGED <<lifeVars, dbVars, uploadVars, prodVars, brokerVars,
                 esConnected, handlers, deliveries, indexRuns, indexCopies,
                 acceptedRuns, pureVars>>

\* The 5 second retry timer of handleReconnect fires.
ConsumerRetryTimer ==
  /\ recon = "wait"
  /\ recon' = IF consConnected THEN "idle" ELSE "init"
  /\ UNCHANGED <<lifeVars, dbVars, uploadVars, prodVars, brokerVars,
                 consConnected, connOpen, chanOpen, chanTag, esConnected,
                 handlers, deliveries, indexRuns, indexCopies,
                 acceptedRuns, pureVars, faults>>

\* channel.prefetch(1): the broker delivers on the channel only while the
\* channel has no unsettled delivery.
PrefetchAllows == unacked = {}

\* The consumer registered by startConsuming is active: its channel is open
\* and close() has not cancelled it.
Consuming == chanOpen /\ shutdown.cons # "channelClose"

\* The synchronous part of processPdfParsedMessage, up to its first await:
\* the error it throws, or NoError when it reaches client.bulk.
processSyncError(d, readOk) ==
  IF ~readOk \/ jsonFile[d] = <<>> THEN ErrRead
  ELSE IF ~esConnected THEN ErrEsNotConnected
  ELSE IF ~jsonFile[d][1] THEN ErrNoDocs
  ELSE NoError

\* The broker delivers message d and handleMessage runs up to its first
\* await: either client.bulk (inside indexDocuments) or, after a throw,
\* the update to 'failed' in the catch of processPdfParsedMessage.
Deliver(d, readOk) ==
  /\ Consuming
  /\ Fault(~readOk)
  /\ d \in queue
  /\ PrefetchAllows
  /\ deliveries < MaxDeliveries
  /\ deliveries' = deliveries + 1
  /\ queue' = queue \ {d}
  /\ unacked' = unacked \cup {d}
  /\ chanTag' = chanTag + 1
  /\ LET e == processSyncError(d, readOk)
     IN handlers' = handlers \cup
          {[id |-> deliveries + 1, doc |-> d, tag |-> chanTag + 1,
            pc |-> IF e = NoError THEN "bulk" ELSE "setFailed", err |-> e]}
  /\ UNCHANGED <<lifeVars, dbVars, uploadVars, prodVars, acked, settled, consConnected,
                 connOpen, chanOpen, recon, esConnected, indexRuns, indexCopies,
                 acceptedRuns, pureVars>>

\* The running handler of delivery id.
Running(id) == \E h \in handlers : h.id = id
HandlerOf(id) == CHOOSE h \in handlers : h.id = id

\* Handler h moves to position pc with pending error e.
HandlerGoto(h, pc, e) ==
  handlers' = (handlers \ {h}) \cup {[h EXCEPT !.pc = pc, !.err = e]}

\* Outcomes of client.bulk: every document accepted; a response with
\* errors = true (the engine rejected some documents, here the one of the
\* last content item); the call throws.
BulkOutcomes == {"accepted", "partial", "throws"}

\* Mutant of BulkDone: the index operation carries an _id derived from the
\* document and the item, so a repeated run replaces the earlier copy.
BulkDone_UpsertById(id, outcome) ==
  /\ Running(id)
  /\ Fault(outcome # "accepted")
  /\ LET h == HandlerOf(id) IN
     /\ h.pc = "bulk"
     /\ IF outcome = "throws"
        THEN /\ HandlerGoto(h, "setFailed", ErrBulk)
             /\ UNCHANGED <<indexRuns, indexCopies, acceptedRuns>>
        ELSE /\ indexRuns' = [indexRuns EXCEPT ![h.doc] = @ + 1]
             /\ acceptedRuns' = [acceptedRuns EXCEPT ![h.doc] =
                                   IF outcome = "accepted" THEN @ + 1 ELSE @]
             /\ indexCopies' = [indexCopies EXCEPT ![h.doc] =
                                  IF outcome = "accepted" THEN 1 ELSE @]
             /\ HandlerGoto(h, "setReady", NoError)
     /\ UNCHANGED <<lifeVars, dbVars, uploadVars, prodVars, brokerVars, consVars,
                    esConnected, deliveries, pureVars>>

\* client.bulk completes (refresh: true, so the documents are searchable at
\* once). The index operations carry no _id, so every accepted document is
\* a new one. When the call returns, with or without rejected documents,
\* indexDocuments returns success and the update to 'ready' is started;
\* when it throws, the catch starts the update to 'failed'.
BulkDone(id, outcome) ==
  /\ Running(id)
  /\ Fault(outcome # "accepted")
  /\ LET h == HandlerOf(id) IN
     /\ h.pc = "bulk"
     /\ IF outcome = "throws"
        THEN /\ HandlerGoto(h, "setFailed", ErrBulk)
             /\ UNCHANGED <<indexRuns, indexCopies, acceptedRuns>>
        ELSE /\ indexRuns' = [indexRuns EXCEPT ![h.doc] = @ + 1]
             /\ acceptedRuns' = [acceptedRuns EXCEPT ![h.doc] =
                                   IF outcome = "accepted" THEN @ + 1 ELSE @]
             /\ indexCopies' = [indexCopies EXCEPT ![h.doc] =
                                  IF outcome = "accepted" THEN @ + 1 ELSE @]
             /\ HandlerGoto(h, "setReady", NoError)
     /\ UNCHANGED <<lifeVars, dbVars, uploadVars, prodVars, brokerVars, consVars,
                    esConnected, deliveries, pureVars>>

\* The update to 'ready' completes; a store error is caught and the update
\* to 'failed' is started.
SetReadyDone(id, dbOk) ==
  /\ Running(id)
  /\ Fault(~dbOk)
  /\ LET h == HandlerOf(id) IN
     /\ h.pc = "setReady"
     /\ IF dbOk
        THEN /\ updateStatus(h.doc, "ready", NoError)
             /\ HandlerGoto(h, "ack", NoError)
        ELSE /\ HandlerGoto(h, "setFailed", ErrDb)
             /\ UNCHANGED dbVars
     /\ UNCHANGED <<lifeVars, uploadVars, prodVars, brokerVars, consVars,
                    esConnected, deliveries, indexRuns, indexCopies,
                 acceptedRuns, pureVars>>

\* The update to 'failed' completes; a store error is logged and dropped.
\* In both cases the error is re-thrown to handleMessage.
SetFailedDone(id, dbOk) ==
  /\ Running(id)
  /\ Fault(~dbOk)
  /\ LET h == HandlerOf(id) IN
     /\ h.pc = "setFailed"
     /\ IF dbOk
        THEN updateStatus(h.doc, "failed", h.err)
        ELSE UNCHANGED dbVars
     /\ HandlerGoto(h, "nack", h.err)
     /\ UNCHANGED <<lifeVars, uploadVars, prodVars, brokerVars, consVars,
                    esConnected, deliveries, indexRuns, indexCopies,
                 acceptedRuns, pureVars>>

\* The broker settles a delivery by its tag on the channel the frame
\* arrives on: the tag must be that of the channel's unsettled delivery,
\* which is the latest delivery made (its number is deliveries).
TagKnown(t) == unacked # {} /\ t = chanTag

\* A settlement frame with an unknown tag is a channel error: the broker
\* closes the channel (see ConsumerChannelClose).
SettleUnknownTag ==
  /\ chanOpen' = FALSE
  /\ BrokerRequeueUnacked
  /\ UNCHANGED <<acked, settled>>

\* handleMessage resumes after processPdfParsedMessage returned and calls
\* this.channel.ack(msg). On a closed channel ack throws, and so does the
\* nack in the catch: the handler ends with a rejected promise.
AckStep(id) ==
  /\ Running(id)
  /\ LET h == HandlerOf(id) IN
     /\ h.pc = "ack"
     /\ handlers' = handlers \ {h}
     /\ IF ~chanOpen
        THEN UNCHANGED <<brokerVars, chanOpen>>
        ELSE IF TagKnown(h.tag)
             THEN /\ acked' = acked \cup unacked
                  /\ unacked' = {}
                  /\ settled' = settled \cup {deliveries}
                  /\ UNCHANGED <<queue, chanOpen>>
             ELSE SettleUnknownTag
     /\ UNCHANGED <<lifeVars, dbVars, uploadVars, prodVars, consConnected,
                    connOpen, chanTag, recon, esConnected, deliveries,
                    indexRuns, indexCopies,
                 acceptedRuns, pureVars, faults>>

\* Mutant of NackStep: the message is rejected without requeue.
NackStep_NoRequeue(id) ==
  /\ Running(id)
  /\ LET h == HandlerOf(id) IN
     /\ h.pc = "nack"
     /\ handlers' = handlers \ {h}
     /\ IF ~chanOpen
        THEN UNCHANGED <<brokerVars, chanOpen>>
        ELSE IF TagKnown(h.tag)
             THEN /\ unacked' = {}
                  /\ settled' = settled \cup {deliveries}
                  /\ UNCHANGED <<queue, acked, chanOpen>>
             ELSE SettleUnknownTag
     /\ UNCHANGED <<lifeVars, dbVars, uploadVars, prodVars, consConnected,
                    connOpen, chanTag, recon, esConnected, deliveries,
                    indexRuns, indexCopies,
                 acceptedRuns, pureVars, faults>>

\* handleMessage catches the re-thrown error and calls
\* this.channel.nack(msg, false, true); on a closed channel nack throws.
NackStep(id) ==
  /\ Running(id)
  /\ LET h == HandlerOf(id) IN
     /\ h.pc = "nack"
     /\ handlers' = handlers \ {h}
     /\ IF ~chanOpen
        THEN UNCHANGED <<brokerVars, chanOpen>>
        ELSE IF TagKnown(h.tag)
             THEN /\ BrokerRequeueUnacked
                  /\ settled' = settled \cup {deliveries}
                  /\ UNCHANGED <<acked, chanOpen>>
             ELSE SettleUnknownTag
     /\ UNCHANGED <<lifeVars, dbVars, uploadVars, prodVars, consConnected,
                    connOpen, chanTag, recon, esConnected, deliveries,
                    indexRuns, indexCopies,
                 acceptedRuns, pureVars, faults>>

\* ---- close() of the consumer and of the producer ----

\* RabbitMQConsumerService.close is called on a consumer that is connected:
\* it runs up to the await of channel.cancel in stopConsuming.
ConsumerCloseCall ==
  /\ server = "listening"
  /\ shutdown.cons = "none"
  /\ consConnected /\ connOpen /\ chanOpen
  /\ shutdown' = [shutdown EXCEPT !.cons = "cancel"]
  /\ UNCHANGED <<server, dbVars, uploadVars, prodVars, brokerVars, consVars,
                 esConnected, handlers, deliveries, indexRuns, indexCopies,
                 acceptedRuns, pureVars, faults>>

\* channel.cancel completes: the broker delivers no more on the channel,
\* and close() awaits channel.close().
ConsumerCancelDone ==
  /\ shutdown.cons = "cancel"
  /\ chanOpen
  /\ shutdown' = [shutdown EXCEPT !.cons = "channelClose"]
  /\ UNCHANGED <<server, dbVars, uploadVars, prodVars, brokerVars, consVars,
                 esConnected, handlers, deliveries, indexRuns, indexCopies,
                 acceptedRuns, pureVars, faults>>

\* channel.close() completes: the channel's 'close' handler calls
\* handleReconnect, which returns because isConnected is still true; then
\* close() awaits connection.close().
ConsumerChannelClosed ==
  /\ shutdown.cons = "channelClose"
  /\ chanOpen /\ consConnected
  /\ chanOpen' = FALSE
  /\ BrokerRequeueUnacked
  /\ shutdown' = [shutdown EXCEPT !.cons = "connectionClose"]
  /\ UNCHANGED <<server, dbVars, uploadVars, prodVars, acked, settled,
                 consConnected, connOpen, chanTag, recon, esConnected,
                 handlers, deliveries, indexRuns, indexCopies, acceptedRuns,
                 pureVars, faults>>

\* connection.close() completes: the connection's 'close' handler clears
\* isConnected and calls handleReconnect, which runs initialize up to its
\* first await; close() clears isConnected and returns.
ConsumerConnectionClosed ==
  /\ shutdown.cons = "connectionClose"
  /\ connOpen
  /\ connOpen' = FALSE
  /\ consConnected' = FALSE
  /\ recon' = "init"
  /\ shutdown' = [shutdown EXCEPT !.cons = "closed"]
  /\ UNCHANGED <<server, dbVars, uploadVars, prodVars, brokerVars, chanOpen,
                 chanTag, esConnected, handlers, deliveries, indexRuns,
                 indexCopies, acceptedRuns, pureVars, faults>>

\* RabbitMQService.close is called on a producer that is connected: it
\* runs up to the await of channel.close().
ProducerCloseCall ==
  /\ server = "listening"
  /\ shutdown.prod = "none"
  /\ prodConnected /\ prodConns > 0
  /\ shutdown' = [shutdown EXCEPT !.prod = "channelClose"]
  /\ UNCHANGED <<server, dbVars, uploadVars, prodVars, brokerVars, consVars,
                 esConnected, handlers, deliveries, indexRuns, indexCopies,
                 acceptedRuns, pureVars, faults>>

\* channel.close() completes (the producer has no 'close' handler on its
\* channel), and close() awaits connection.close().
ProducerChannelClosed ==
  /\ shutdown.prod = "channelClose"
  /\ shutdown' = [shutdown EXCEPT !.prod = "connectionClose"]
  /\ UNCHANGED <<server, dbVars, uploadVars, prodVars, brokerVars, consVars,
                 esConnected, handlers, deliveries, indexRuns, indexCopies,
                 acceptedRuns, pureVars, faults>>

\* connection.close() completes: the connection's 'close' handler clears
\* isConnected and calls handleReconnect, which arms a reconnect timer
\* unless the attempts are used up; close() clears isConnected and returns.
ProducerConnectionClosed ==
  /\ shutdown.prod = "connectionClose"
  /\ prodConns > 0
  /\ prodConns' = prodConns - 1
  /\ prodConnected' = FALSE
  /\ LET r == ProducerHandleReconnect(1, reconnectAttempts, prodTimers)
     IN /\ reconnectAttempts' = r[1]
        /\ prodTimers' = r[2]
  /\ shutdown' = [shutdown EXCEPT !.prod = "closed"]
  /\ UNCHANGED <<server, dbVars, uploadVars, brokerVars, consVars,
                 esConnected, handlers, deliveries, indexRuns, indexCopies,
                 acceptedRuns, pureVars, faults>>

\* ---- specification ----

Next ==
  \/ \E pOk, cOk, eOk \in BOOLEAN : StartServer(pOk, cOk, eOk)
  \/ \E withError \in BOOLEAN : ProducerConnectionLost(withError)
  \/ \E d \in Docs : CreatePdf(d)
  \/ \E d \in Docs, dbOk \in BOOLEAN : SetParsingDone(d, dbOk)
  \/ \E d \in Docs, ok, hasItems \in BOOLEAN : ParseDone(d, ok, hasItems)
  \/ \E d \in Docs, dbOk \in BOOLEAN : TaskSetFailedDone(d, dbOk)
  \/ ConsumerChannelClose
  \/ ConsumerConnectionClose
  \/ \E ok \in BOOLEAN : ConsumerInitializeDone(ok)
  \/ ConsumerRetryTimer
  \/ \E d \in Docs, readOk \in BOOLEAN : Deliver(d, readOk)
  \/ \E id \in 1..MaxDeliveries, outcome \in BulkOutcomes : BulkDone(id, outcome)
  \/ \E id \in 1..MaxDeliveries, dbOk \in BOOLEAN : SetReadyDone(id, dbOk)
  \/ \E id \in 1..MaxDeliveries, dbOk \in BOOLEAN : SetFailedDone(id, dbOk)
  \/ \E id \in 1..MaxDeliveries : AckStep(id)
  \/ \E id \in 1..MaxDeliveries : NackStep(id)

Spec == Init /\ [][Next]_vars

\* The producer's connection handling on its own: start-up, connection
\* losses and the reconnect timers, which Spec leaves out.
NextProducer ==
  \/ \E pOk, cOk, eOk \in BOOLEAN : StartServer(pOk, cOk, eOk)
  \/ \E ok \in BOOLEAN : ProducerTimerFire(ok)
  \/ \E withError \in BOOLEAN : ProducerConnectionLost(withError)

SpecProducer == Init /\ [][NextProducer]_vars

\* The pipeline with the broker and the search engine available: the
\* three services start and no connection or channel is lost. A document
\* may fail to parse or have no content items, its JSON file may be
\* unreadable, the search engine may reject its documents or its bulk
\* request, and the status store may refuse an update.
NextLive ==
  \/ StartServer(TRUE, TRUE, TRUE)
  \/ \E d \in Docs : CreatePdf(d)
  \/ \E d \in Docs, dbOk \in BOOLEAN : SetParsingDone(d, dbOk)
  \/ \E d \in Docs, ok, hasItems \in BOOLEAN : ParseDone(d, ok, hasItems)
  \/ \E d \in Docs, dbOk \in BOOLEAN : TaskSetFailedDone(d, dbOk)
  \/ \E d \in Docs, readOk \in BOOLEAN : Deliver(d, readOk)
  \/ \E id \in 1..MaxDeliveries, outcome \in BulkOutcomes : BulkDone(id, outcome)
  \/ \E id \in 1..MaxDeliveries, dbOk \in BOOLEAN : SetReadyDone(id, dbOk)
  \/ \E id \in 1..MaxDeliveries, dbOk \in BOOLEAN : SetFailedDone(id, dbOk)
  \/ \E id \in 1..MaxDeliveries : AckStep(id)
  \/ \E id \in 1..MaxDeliveries : NackStep(id)

\* Fair scheduling: the server starts, every awaited operation completes
\* (with some outcome), the handler's next step runs, and the broker
\* delivers a queued message to a consumer that is free.
FairLive ==
  /\ WF_vars(StartServer(TRUE, TRUE, TRUE))
  /\ WF_vars(\E d \in Docs, dbOk \in BOOLEAN : SetParsingDone(d, dbOk))
  /\ WF_vars(\E d \in Docs, ok, hasItems \in BOOLEAN : ParseDone(d, ok, hasItems))
  /\ WF_vars(\E d \in Docs, dbOk \in BOOLEAN : TaskSetFailedDone(d, dbOk))
  /\ \A d \in Docs : SF_vars(\E readOk \in BOOLEAN : Deliver(d, readOk))
  /\ WF_vars(\E id \in 1..MaxDeliveries, outcome \in BulkOutcomes :
                BulkDone(id, outcome))
  /\ WF_vars(\E id \in 1..MaxDeliveries, dbOk \in BOOLEAN : SetReadyDone(id, dbOk))
  /\ WF_vars(\E id \in 1..MaxDeliveries, dbOk \in BOOLEAN : SetFailedDone(id, dbOk))
  /\ WF_vars(\E id \in 1..MaxDeliveries : AckStep(id))
  /\ WF_vars(\E id \in 1..MaxDeliveries : NackStep(id))

SpecLive == Init /\ [][NextLive]_vars /\ FairLive

\* The pipeline with connection and channel losses, under fair scheduling:
\* besides FairLive, an initialize that handleReconnect started completes
\* and its retry timer fires. The losses themselves are the
\* environment's and are not forced.
FairConsumer ==
  /\ FairLive
  /\ WF_vars(\E ok \in BOOLEAN : ConsumerInitializeDone(ok))
  /\ WF_vars(ConsumerRetryTimer)

SpecConsumer == Init /\ [][Next]_vars /\ FairConsumer

\* The pipeline with the services being closed: what NextLive admits, the
\* steps of close() of the consumer and of the producer, and the reconnect
\* steps of both.
NextShutdown ==
  \/ NextLive
  \/ ConsumerCloseCall
  \/ ConsumerCancelDone
  \/ ConsumerChannelClosed
  \/ ConsumerConnectionClosed
  \/ \E ok \in BOOLEAN : ConsumerInitializeDone(ok)
  \/ ConsumerRetryTimer
  \/ ProducerCloseCall
  \/ ProducerChannelClosed
  \/ ProducerConnectionClosed
  \/ \E ok \in BOOLEAN : ProducerTimerFire(ok)

SpecShutdown == Init /\ [][NextShutdown]_vars

TypeOK ==
  /\ server \in {"boot", "listening"}
  /\ status \in [Docs -> StatusValues]
  /\ \A d \in Docs : Len(jsonFile[d]) <= 1
  /\ reconnectAttempts \in 0..MaxReconnectAttempts
  /\ Cardinality(unacked) <= 1
  /\ deliveries \in 0..MaxDeliveries
  /\ \A d \in Docs : indexRuns[d] \in 0..deliveries
  /\ \A d \in Docs : indexCopies[d] \in 0..indexRuns[d]
  /\ response \in [Docs -> {"none", "201"}]
  /\ call = NoCall /\ ret = NoCall
  /\ \A h \in handlers : h.pc \in {"bulk", "setReady", "ack", "setFailed", "nack"}
  /\ settled \subseteq 1..deliveries
  /\ shutdown \in [cons : {"none", "cancel", "channelClose", "connectionClose",
                           "closed"},
                   prod : {"none", "channelClose", "connectionClose", "closed"}]

\* ---- claims ----

AllowedTransitions ==
  {<<"none", "queued">>, <<"queued", "parsing">>,
   <<"parsing", "ready">>, <<"parsing", "failed">>}

\* C1: every change of a document's status is queued->parsing,
\* parsing->ready or parsing->failed (after the record is created as
\* queued); the status never goes back.
C1_OnlyForwardTransitions ==
  [][\A d \in Docs : status'[d] # status[d] =>
        <<status[d], status'[d]>> \in AllowedTransitions]_vars

\* C2: failed is terminal: a document whose status is failed keeps that
\* status and no handler is started for it again.
C2_FailedIsTerminal ==
  [][\A d \in Docs : status[d] = "failed" =>
        /\ status'[d] = "failed"
        /\ \A h \in handlers' \ handlers : h.doc # d]_vars

\* The search index holds the documents of d: a bulk call wrote the
\* (non-empty) batch of d's search documents and the engine accepted them.
Indexed(d) == indexCopies[d] > 0

\* C3: a document has content in the search index only if its status is
\* ready.
C3_IndexedOnlyWhenReady ==
  \A d \in Docs : Indexed(d) => status[d] = "ready"

\* C4: a document's error field is non-empty only if its status is failed.
C4_ErrorOnlyWhenFailed ==
  \A d \in Docs : error[d] # NoError => status[d] = "failed"

\* C5: when a handler whose processing failed settles its message, the
\* document's status is failed with a non-empty error text and the message
\* is back in the queue.
C5_FailureSetsFailedThenRequeues ==
  [][\A h \in handlers : (h.pc = "nack" /\ h \notin handlers') =>
        /\ status[h.doc] = "failed"
        /\ error[h.doc] # NoError
        /\ h.doc \in queue']_vars

\* C6: no two handlers are processing the same document at the same time.
C6_NoConcurrentSameDocument ==
  \A h1, h2 \in handlers : h1.doc = h2.doc => h1 = h2

\* C7: the consumer instance has at most one handler running at any time.
C7_OneInFlightPerConsumer ==
  Cardinality(handlers) <= 1

\* C8: a message is acked only by the handler of that delivery after its
\* update to ready, and when a message is acked its document is ready.
C8_AckOnlyAfterSuccess ==
  [][\A d \in acked' \ acked :
        /\ status'[d] = "ready"
        /\ \E h \in handlers \ handlers' : h.doc = d /\ h.pc = "ack"]_vars

\* C9: a published message is in the broker (queued or delivered and
\* unsettled) until it is acked: nothing else removes it, however often
\* its processing fails.
C9_PublishedNeverLost ==
  \A d \in published : d \in queue \cup unacked \/ d \in acked

\* C9 witness: a message whose processing failed twice is queued again.
C9_Witness ==
  \E d \in queue : deliveries >= 2 /\ handlers = {} /\ status[d] = "failed"
                   /\ indexRuns[d] = 0 /\ d \notin acked

C11_ResponseBeforeBackgroundWork ==
  [][\A d \in Docs :
        /\ response'[d] # response[d] =>
              /\ response[d] = "none" /\ response'[d] = "201"
              /\ task[d] = "idle" /\ status'[d] = "queued"
              /\ jsonFile'[d] = <<>>
              /\ d \notin published' \cup pubThrew' \cup parseThrew'
        /\ task[d] # "idle" => response[d] = "201" /\ response'[d] = "201"]_vars

\* C11 witness: a background task has ended with a rejected promise (its
\* last update to failed was refused) after the success response.
C11_Witness ==
  \E d \in Docs : response[d] = "201" /\ task[d] = "rejected"

C24_SettledExactlyOnce ==
  [][\A h \in handlers :
        (\A g \in handlers' : g.id # h.id) => h.id \in settled']_vars

\* C25: with the broker and the search engine available and fair
\* scheduling, every uploaded document whose status is queued or parsing
\* eventually has status ready or failed (as long as the model's bound on
\* deliveries leaves the broker free to deliver).
C25_EventuallyReadyOrFailed ==
  \A d \in Docs :
     (status[d] \in {"queued", "parsing"})
        ~> (status[d] \in {"ready", "failed"} \/ deliveries = MaxDeliveries)

\* C26: a document whose status is ready has its search documents in the
\* index: an indexing run wrote them before the status was set.
C26_ReadyImpliesIndexed ==
  \A d \in Docs : status[d] = "ready" => Indexed(d)

\* C27: once close() of the consumer has returned, the consumer has no
\* connection, no channel and no reconnect in progress, and no message is
\* delivered to it; once close() of the producer has returned, the
\* producer is not connected and has no reconnect timer pending.
C27_StaysClosed ==
  [][/\ shutdown'.cons = "closed" =>
          /\ recon' = "idle" /\ ~consConnected' /\ ~connOpen' /\ ~chanOpen'
          /\ shutdown.cons = "closed" => deliveries' = deliveries
     /\ shutdown'.prod = "closed" =>
          /\ ~prodConnected' /\ prodConns' = 0 /\ prodTimers' = 0]_vars

\* C28: when the consumer's channel is closed while its connection stays
\* open, the consumer eventually has an open channel again (it resumes
\* consuming), unless the connection is lost too.
C28_ChannelCloseResumes ==
  (connOpen /\ ~chanOpen) ~> (chanOpen \/ ~connOpen)

\* C29: in the producer, reconnectAttempts never exceeds
\* maxReconnectAttempts and at most one reconnect timer is pending at any
\* time, also when both the 'error' and the 'close' handler run for one
\* connection loss.
C29_OneReconnectTimer ==
  /\ reconnectAttempts <= MaxReconnectAttempts
  /\ prodTimers <= 1

\* ---- ElasticsearchService.indexDocuments as a function ----

\* The inputs of one call: the service's isConnected flag, the number n of
\* documents in the batch, and what client.bulk does with a non-empty
\* batch: it throws, or it answers with rejected of the n documents
\* rejected (result.errors is true when rejected > 0).
IndexCalls ==
  {[fn |-> "indexDocuments", connected |-> c, n |-> n, rejected |-> r,
    bulkThrows |-> t] :
     c \in BOOLEAN, n \in 0..MaxBatch, r \in 0..MaxBatch, t \in BOOLEAN}

IndexResult(threw, success, count, err, accepted) ==
  [fn |-> "indexDocuments", threw |-> threw, success |-> success,
   indexedCount |-> count, error |-> err, accepted |-> accepted]

\* Mutant of indexDocuments: a bulk response with errors makes the call
\* throw.
indexDocuments_FailOnErrors(c) ==
  IF ~c.connected THEN IndexResult(TRUE, FALSE, 0, ErrEsNotConnected, 0)
  ELSE IF c.n > 0
       THEN IF c.bulkThrows \/ c.rejected > 0
            THEN IndexResult(TRUE, FALSE, 0, ErrBulk, 0)
            ELSE IndexResult(FALSE, TRUE, c.n, NoError, c.n - c.rejected)
       ELSE IndexResult(FALSE, FALSE, 0, "No documents to index", 0)

\* indexDocuments: what the call returns or throws, and in accepted the
\* number of documents the engine added to the index.
indexDocuments(c) ==
  IF ~c.connected THEN IndexResult(TRUE, FALSE, 0, ErrEsNotConnected, 0)
  ELSE IF c.n > 0
       THEN IF c.bulkThrows
            THEN IndexResult(TRUE, FALSE, 0, ErrBulk, 0)
            ELSE IndexResult(FALSE, TRUE, c.n, NoError, c.n - c.rejected)
       ELSE IndexResult(FALSE, FALSE, 0, "No documents to index", 0)

InitIndexer ==
  /\ InitPipeline
  /\ call \in {c \in IndexCalls : c.rejected <= c.n}
  /\ ret = NoCall

IndexDocumentsCall ==
  /\ call.fn = "indexDocuments"
  /\ ret = NoCall
  /\ ret' = indexDocuments(call)
  /\ UNCHANGED <<call, pipelineVars>>

NextIndexer == IndexDocumentsCall

SpecIndexer == InitIndexer /\ [][NextIndexer]_vars

\* C14: on a connected indexer a bulk response in which some documents of
\* a non-empty batch were rejected makes indexDocuments return success =
\* true without throwing, and a returned result has success = false, with
\* an error text and indexedCount 0, exactly when the batch is empty.
C14_PartialFailureIsSuccess ==
  (ret.fn = "indexDocuments" /\ call.connected) =>
     /\ (call.n > 0 /\ call.rejected > 0 /\ ~call.bulkThrows) =>
           (~ret.threw /\ ret.success)
     /\ ~ret.threw => (~ret.success <=> call.n = 0)
     /\ (~ret.threw /\ ~ret.success) =>
           (ret.error # NoError /\ ret.indexedCount = 0)
     /\ call.n = 0 => ~ret.threw

\* C14 witness: a call whose bulk response rejected two of three documents
\* has returned.
C14_Witness ==
  /\ ret.fn = "indexDocuments" /\ call.connected
  /\ call.n = 3 /\ call.rejected = 2 /\ ~call.bulkThrows
  /\ ret.success

\* C15: the indexedCount that indexDocuments returns is the number of
\* documents the engine accepted.
C15_IndexedCountIsAccepted ==
  (ret.fn = "indexDocuments" /\ ~ret.threw) =>
     ret.indexedCount = ret.accepted

\* ---- SearchController.searchPdfContent ----

\* Strings are sequences of characters; a request parameter is <<>> when
\* the request does not carry it and <<v>> when it carries the string v.
EmptyString == <<>>
TypeImage == <<"i", "m", "a", "g", "e">>
TypeTable == <<"t", "a", "b", "l", "e">>
QueryTexts == {EmptyString, <<"s">>, <<"a", "+">>}
Users == {<<"u">>, <<"v">>}
Opt(S) == {<<>>} \cup {<<v>> : v \in S}

\* JavaScript truthiness of a query-string parameter: undefined and the
\* empty string are falsy.
Truthy(p) == p # <<>> /\ p[1] # EmptyString

SearchCalls ==
  {[fn |-> "search", userId |-> u, query |-> q, pdf_filename |-> f,
    type |-> t, page_number |-> pn, total_pages |-> tp, esConnected |-> e] :
     u \in Users, q \in Opt(QueryTexts), f \in Opt({<<"f">>}),
     t \in Opt({TypeImage, TypeTable, EmptyString}),
     pn \in Opt({<<"1">>}), tp \in Opt({<<"2">>}), e \in BOOLEAN}

\* The characters that buildSearchQuery escapes with a backslash.
SpecialChars == {"+", "-", "&", "|", "!", "(", ")", "{", "}", "[", "]", "^",
                 "\"", "~", "*", "?", ":", "\\"}

RECURSIVE EscapeQuery(_)
EscapeQuery(q) ==
  IF q = <<>> THEN <<>>
  ELSE (IF Head(q) \in SpecialChars THEN <<"\\", Head(q)>> ELSE <<Head(q)>>)
       \o EscapeQuery(Tail(q))

Term(field, value) ==
  [kind |-> "term", field |-> field, value |-> value, fields |-> <<>>,
   fuzzy |-> FALSE]
Terms(field, values) ==
  [kind |-> "terms", field |-> field, value |-> values, fields |-> <<>>,
   fuzzy |-> FALSE]
MultiMatch(q, fields, fuzzy) ==
  [kind |-> "multi_match", field |-> "", value |-> q, fields |-> fields,
   fuzzy |-> fuzzy]

PlainFields == <<"title", "text">>
ImageFields == <<"image.caption", "image.imagetext", "title", "text">>

\* Mutant of BuildFilters: the free-text clause is the same for every type.
BuildFilters_NoImageBranch(c, must) ==
  must
  \o (IF Truthy(c.type) THEN <<Term("type", c.type[1])>> ELSE <<>>)
  \o (IF Truthy(c.page_number)
      THEN <<Term("page_number", c.page_number[1])>> ELSE <<>>)
  \o (IF Truthy(c.total_pages)
      THEN <<Term("total_pages", c.total_pages[1])>> ELSE <<>>)
  \o (IF Truthy(c.query)
      THEN <<MultiMatch(EscapeQuery(c.query[1]), PlainFields, TRUE)>>
      ELSE <<>>)

\* buildSearchQuery after the filename lookup: the type, page_number and
\* total_pages term filters and the free-text clause are appended to must.
BuildFilters(c, must) ==
  must
  \o (IF Truthy(c.type) THEN <<Term("type", c.type[1])>> ELSE <<>>)
  \o (IF Truthy(c.page_number)
      THEN <<Term("page_number", c.page_number[1])>> ELSE <<>>)
  \o (IF Truthy(c.total_pages)
      THEN <<Term("total_pages", c.total_pages[1])>> ELSE <<>>)
  \o (IF Truthy(c.query)
      THEN IF c.type = <<TypeImage>>
           THEN <<MultiMatch(EscapeQuery(c.query[1]), ImageFields, FALSE)>>
           ELSE <<MultiMatch(EscapeQuery(c.query[1]), PlainFields, TRUE)>>
      ELSE <<>>)

\* ElasticsearchService.searchPdfContent(query, userId, options): the body
\* it sends is its own multi_match on its query argument, with the user
\* filter only when userId is given (<<>>: null).
ServiceSearchBody(query, userId) ==
  [must |-> <<MultiMatch(query, <<"title^2", "text">>, TRUE)>>,
   filter |-> IF userId # <<>> THEN <<Term("user_id", userId[1])>> ELSE <<>>]

SearchState(pc, outcome, must, sent) ==
  [fn |-> "search", pc |-> pc, outcome |-> outcome, must |-> must,
   sent |-> sent]

\* The rest of searchPdfContent once the filename lookup is over: the
\* query is completed, wrapped into searchOptions and handed, as the only
\* argument, to elasticsearchManager.searchPdfContent, whose userId
\* parameter therefore takes its default null.
SearchFinish(c, must) ==
  LET built == BuildFilters(c, must)
      searchOptions == [query |-> built]
  IN IF ~c.esConnected
     THEN SearchState("done", "Elasticsearch not connected", built, <<>>)
     ELSE SearchState("done", "sent", built,
                      <<ServiceSearchBody(searchOptions, <<>>)>>)

\* The validation of searchPdfContent.
NoSearchParameter(c) ==
  /\ ~Truthy(c.query) /\ ~Truthy(c.pdf_filename) /\ ~Truthy(c.type)
  /\ ~Truthy(c.page_number) /\ ~Truthy(c.total_pages)

\* Mutant of SearchStart: the query is built before the parameters are
\* validated.
SearchStart_BuildsFirst ==
  /\ call.fn = "search"
  /\ ret = NoCall
  /\ LET must == <<Term("user_id", call.userId)>> IN
       ret' = IF Truthy(call.pdf_filename)
              THEN SearchState("lookup", "pending", must, <<>>)
              ELSE IF NoSearchParameter(call)
                   THEN SearchState("done", "ValidationError",
                                    BuildFilters(call, must), <<>>)
                   ELSE SearchFinish(call, must)
  /\ UNCHANGED <<call, pipelineVars>>

\* searchPdfContent up to its first await: the validation, then
\* buildSearchQuery up to the filename lookup if a filename was given.
SearchStart ==
  /\ call.fn = "search"
  /\ ret = NoCall
  /\ LET must == <<Term("user_id", call.userId)>> IN
       ret' = IF NoSearchParameter(call)
              THEN SearchState("done", "ValidationError", <<>>, <<>>)
              ELSE IF Truthy(call.pdf_filename)
                   THEN SearchState("lookup", "pending", must, <<>>)
                   ELSE SearchFinish(call, must)
  /\ UNCHANGED <<call, pipelineVars>>

\* The outcomes of this.pdfService.getPdfIdByFilename(cleanFilename, userId)
\* inside getPdfIdByFilename: PdfService defines no method of that name, so
\* the call throws a TypeError.
LookupOutcomes == {"error"}

\* getPdfIdByFilename completes: with an error (caught, null is returned
\* and no clause is added), or with the list of matching ids, which may be
\* empty (an empty array is truthy).
SearchLookupDone(found) ==
  /\ ret.fn = "search"
  /\ ret.pc = "lookup"
  /\ LET ids == IF found = "one" THEN <<"7">> ELSE <<>>
          must == IF found = "error" THEN ret.must
                  ELSE Append(ret.must, Terms("pdf_id", ids))
     IN ret' = SearchFinish(call, must)
  /\ UNCHANGED <<call, pipelineVars>>

InitSearch ==
  /\ InitPipeline
  /\ call \in SearchCalls
  /\ ret = NoCall

NextSearch ==
  \/ SearchStart
  \/ \E found \in LookupOutcomes : SearchLookupDone(found)

SpecSearch == InitSearch /\ [][NextSearch]_vars

HasOwnerTerm(clauses, u) ==
  \E i \in 1..Len(clauses) :
     clauses[i].kind = "term" /\ clauses[i].field = "user_id"
     /\ clauses[i].value = u

\* C16: the query of every search request sent to the search engine
\* contains the term filter user_id = the requesting user.
C16_OwnerFilterInEveryQuery ==
  (ret.fn = "search" /\ ret.outcome = "sent") =>
     HasOwnerTerm(ret.sent[1].must \o ret.sent[1].filter, call.userId)

\* C17: a request in which none of the five parameters has a value fails
\* with ValidationError with no query built and nothing sent; a request in
\* which one of them has a value does not fail validation.
C17_ValidationBeforeQuery ==
  ret.fn = "search" =>
     IF NoSearchParameter(call)
     THEN ret.outcome = "ValidationError" /\ ret.must = <<>> /\ ret.sent = <<>>
     ELSE ret.outcome # "ValidationError"

\* C17 witness: a request that carries none of the five parameters has
\* been rejected.
C17_Witness ==
  /\ ret.fn = "search" /\ ret.outcome = "ValidationError"
  /\ call.query = <<>> /\ call.pdf_filename = <<>> /\ call.type = <<>>
  /\ call.page_number = <<>> /\ call.total_pages = <<>>

\* The free-text clause of the query built by buildSearchQuery.
FreeTextClause == ret.must[Len(ret.must)]
ImageTextSearch ==
  /\ ret.fn = "search" /\ ret.pc = "done"
  /\ Truthy(call.query) /\ call.type = <<TypeImage>>

\* C18 as stated: for type = image the free-text clause searches the
\* image fields image.caption and image.imagetext and not title / text.
C18_ImageFieldSetOnly ==
  ImageTextSearch =>
     FreeTextClause.fields = <<"image.caption", "image.imagetext">>

\* C18 amended: for type = image the free-text clause built by
\* buildSearchQuery searches image.caption and image.imagetext in addition
\* to title and text; for every other type it searches title and text.
C18_ImageFieldsAdded ==
  (ret.fn = "search" /\ ret.pc = "done" /\ Truthy(call.query)) =>
     /\ FreeTextClause.kind = "multi_match"
     /\ FreeTextClause.fields =
          IF call.type = <<TypeImage>> THEN ImageFields ELSE PlainFields

\* C18 witness: a free-text query with type = image has been built.
C18_Witness ==
  ImageTextSearch /\ call.query = <<<<"s">>>>
  /\ FreeTextClause.value = <<"s">>

HasPdfIdClause(clauses) ==
  \E i \in 1..Len(clauses) :
     clauses[i].kind = "terms" /\ clauses[i].field = "pdf_id"

\* C30: the query built for a search request that carries pdf_filename
\* contains a terms clause on pdf_id (the ids of the user's PDFs with that
\* filename, which matches nothing when the list is empty).
C30_FilenameFilterKept ==
  (ret.fn = "search" /\ ret.pc = "done" /\ Truthy(call.pdf_filename)) =>
     HasPdfIdClause(ret.must)

\* ---- ETL: normalizeColumnName and transformTableToColumnStructure ----

\* The characters of the header strings tried: a lower-case and an
\* upper-case letter, a digit, white space, the underscore and a special
\* character.
HeaderChars == {"a", "A", "1", " ", "_", "$"}
WhiteSpace == {" "}
WordChars == {"a", "b", "1", "_"}

\* All strings over HeaderChars of length at most n.
RECURSIVE StringsUpTo(_)
StringsUpTo(n) ==
  IF n = 0 THEN {<<>>}
  ELSE LET shorter == StringsUpTo(n - 1)
       IN shorter \cup {Append(t, c) : t \in shorter, c \in HeaderChars}

ToLowerCase(str) ==
  [i \in 1..Len(str) |-> IF str[i] = "A" THEN "a" ELSE str[i]]

RECURSIVE DropLeading(_, _)
DropLeading(str, chars) ==
  IF str # <<>> /\ Head(str) \in chars THEN DropLeading(Tail(str), chars)
  ELSE str

RECURSIVE DropTrailing(_, _)
DropTrailing(str, chars) ==
  IF str # <<>> /\ str[Len(str)] \in chars
  THEN DropTrailing(SubSeq(str, 1, Len(str) - 1), chars)
  ELSE str

\* String.prototype.trim, and replace(/^_+|_+$/g, '') with chars = {"_"}.
Strip(str, chars) == DropTrailing(DropLeading(str, chars), chars)

\* replace(/\s+/g, '_'): every maximal run of white space becomes one "_".
RECURSIVE SpacesToUnderscore(_)
SpacesToUnderscore(str) ==
  IF str = <<>> THEN <<>>
  ELSE IF Head(str) \in WhiteSpace
       THEN <<"_">> \o SpacesToUnderscore(DropLeading(str, WhiteSpace))
       ELSE <<Head(str)>> \o SpacesToUnderscore(Tail(str))

\* replace(/[^a-z0-9_]/g, '').
RemoveSpecial(str) == SelectSeq(str, LAMBDA c : c \in WordChars)

\* Mutant of normalizeColumnName: the leading and trailing underscores are
\* stripped before the special characters are removed.
normalizeColumnName_StripFirst(header) ==
  RemoveSpecial(Strip(SpacesToUnderscore(Strip(ToLowerCase(header),
                                               WhiteSpace)), {"_"}))

normalizeColumnName(header) ==
  Strip(RemoveSpecial(SpacesToUnderscore(Strip(ToLowerCase(header),
                                               WhiteSpace))), {"_"})

\* The headers tried in tables: a plain name, a name that differs from it
\* in case and white space only, a name of special characters only, and
\* another plain name.
HeaderSamples == {<<"a">>, <<"A", " ">>, <<"$">>, <<"b">>}

RECURSIVE SeqsUpTo(_, _)
SeqsUpTo(S, n) ==
  IF n = 0 THEN {<<>>}
  ELSE LET shorter == SeqsUpTo(S, n - 1)
       IN shorter \cup {Append(t, x) : t \in shorter, x \in S}

\* The rows of a table: row i is { row: i, data: [...] }, the cells of a
\* row of length n being "x", ..., "x".
TableRow(i, n) == [row |-> i, data |-> [j \in 1..n |-> "x"]]
TableContents ==
  {[i \in 1..Len(lens) |-> TableRow(i, lens[i])] :
     lens \in SeqsUpTo(0..MaxRowLen, MaxRows)}

\* The object built for one row: header i sets the key
\* normalizeColumnName(header) to rowData[i] || '', a later header with
\* the same key overwriting an earlier one.
ColumnObject(headers, rowData) ==
  LET name == [i \in 1..Len(headers) |-> normalizeColumnName(headers[i])]
      keys == {name[i] : i \in 1..Len(headers)}
      last(k) == CHOOSE i \in 1..Len(headers) :
                   /\ name[i] = k
                   /\ \A j \in 1..Len(headers) : name[j] = k => j <= i
  IN [k \in keys |-> IF last(k) <= Len(rowData) THEN rowData[last(k)] ELSE ""]

transformTableToColumnStructure(tableContent, tableTitle) ==
  IF tableContent = <<>> \/ tableTitle = <<>> THEN <<>>
  ELSE [r \in 1..Len(tableContent) |->
          [row_number |-> tableContent[r].row,
           row |-> ColumnObject(tableTitle, tableContent[r].data)]]

\* The cells of a row joined with sep (Array.prototype.join on strings).
RECURSIVE Join(_, _)
Join(strs, sep) ==
  IF strs = <<>> THEN ""
  ELSE IF Len(strs) = 1 THEN strs[1]
  ELSE strs[1] \o sep \o Join(Tail(strs), sep)

\* item.title.join(' ') on a title given as an array of words.
RECURSIVE JoinWords(_)
JoinWords(words) ==
  IF words = <<>> THEN <<>>
  ELSE IF Len(words) = 1 THEN words[1]
  ELSE words[1] \o <<" ">> \o JoinWords(Tail(words))

\* A content item of the JSON file. title is <<>> for null and <<words>>
\* for an array of words, page is <<>> when the item has no page, content
\* is the list of rows of a table item.
ContentItem(type, title, text, page, content) ==
  [type |-> type, title |-> title, text |-> text, page |-> page,
   content |-> content]

\* The content items tried: a paragraph without a title, an image with
\* its caption, a table without rows, a table with two header words and a
\* short and a long row, and an item of a type the transform does not know.
ItemSamples ==
  {ContentItem("paragraph", <<>>, "p", <<1>>, <<>>),
   ContentItem("image", <<<< <<"S">>, <<"I">> >>>>, "Figure 1", <<1>>, <<>>),
   ContentItem("table", <<<< <<"a">> >>>>, "", <<>>, <<>>),
   ContentItem("table", <<<< <<"a">>, <<"b">> >>>>, "", <<2>>,
               <<TableRow(1, 1), TableRow(2, 3)>>),
   ContentItem("chart", <<>>, "c", <<>>, <<>>)}

EtlCalls ==
  {[fn |-> "normalizeColumnName", header |-> h] :
     h \in StringsUpTo(MaxHeaderLen)}
  \cup {[fn |-> "transformTable", title |-> t, content |-> c] :
          t \in SeqsUpTo(HeaderSamples, MaxCols), c \in TableContents}
  \cup {[fn |-> "transformPdfData", data |-> items] :
          items \in SeqsUpTo(ItemSamples, MaxItems)}

InitEtl ==
  /\ InitPipeline
  /\ call \in EtlCalls
  /\ ret = NoCall

\* normalizeColumnName applied to the header, and to its own result.
NormalizeCall ==
  /\ call.fn = "normalizeColumnName"
  /\ ret = NoCall
  /\ ret' = [fn |-> "normalizeColumnName",
             once |-> normalizeColumnName(call.header),
             twice |-> normalizeColumnName(normalizeColumnName(call.header))]
  /\ UNCHANGED <<call, pipelineVars>>

TransformTableCall ==
  /\ call.fn = "transformTable"
  /\ ret = NoCall
  /\ ret' = [fn |-> "transformTable",
             rows |-> transformTableToColumnStructure(call.content, call.title)]
  /\ UNCHANGED <<call, pipelineVars>>

\* The fields every search document starts from (baseDoc).
BaseDoc(item) ==
  [page_number |-> IF item.page = <<>> THEN 1 ELSE item.page[1],
   type |-> item.type]

\* Array.isArray(item.title) ? item.title.join(' ') : item.title
FlatTitle(item) ==
  IF item.title = <<>> THEN <<>> ELSE <<JoinWords(item.title[1])>>

\* Mutant of TransformItem: an item of an unknown type raises an error.
TransformItem_UnknownTypeThrows(item) ==
  CASE item.type = "paragraph" ->
         [threw |-> FALSE,
          docs |-> <<BaseDoc(item) @@ [title |-> FlatTitle(item),
                                       text |-> item.text]>>]
    [] item.type = "table" ->
         [threw |-> FALSE,
          docs |-> <<BaseDoc(item) @@
                     [title |-> FlatTitle(item),
                      text |-> Join([r \in 1..Len(item.content) |->
                                       Join(item.content[r].data, " | ")],
                                    "\n "),
                      table_structured |->
                        transformTableToColumnStructure(
                          item.content,
                          IF item.title = <<>> THEN <<>> ELSE item.title[1])]>>]
    [] item.type = "image" ->
         [threw |-> FALSE,
          docs |-> <<BaseDoc(item) @@
                     [title |-> FlatTitle(item), text |-> item.text,
                      image |-> [caption |-> item.text, imagetext |-> ""]]>>]
    [] OTHER -> [threw |-> TRUE, docs |-> <<>>]

\* The body of the forEach callback of
\* transformPdfDataToElasticsearchDocuments: the documents one item adds
\* (the switch on item.type; the default branch only warns).
TransformItem(item) ==
  CASE item.type = "paragraph" ->
         [threw |-> FALSE,
          docs |-> <<BaseDoc(item) @@ [title |-> FlatTitle(item),
                                       text |-> item.text]>>]
    [] item.type = "table" ->
         [threw |-> FALSE,
          docs |-> <<BaseDoc(item) @@
                     [title |-> FlatTitle(item),
                      text |-> Join([r \in 1..Len(item.content) |->
                                       Join(item.content[r].data, " | ")],
                                    "\n "),
                      table_structured |->
                        transformTableToColumnStructure(
                          item.content,
                          IF item.title = <<>> THEN <<>> ELSE item.title[1])]>>]
    [] item.type = "image" ->
         [threw |-> FALSE,
          docs |-> <<BaseDoc(item) @@
                     [title |-> FlatTitle(item), text |-> item.text,
                      image |-> [caption |-> item.text, imagetext |-> ""]]>>]
    [] OTHER -> [threw |-> FALSE, docs |-> <<>>]

\* pdfData.data.forEach: the items are transformed in order, an error
\* raised for one item ends the call.
RECURSIVE transformPdfDataToElasticsearchDocuments(_)
transformPdfDataToElasticsearchDocuments(data) ==
  IF data = <<>> THEN [threw |-> FALSE, docs |-> <<>>]
  ELSE LET first == TransformItem(Head(data))
           rest == transformPdfDataToElasticsearchDocuments(Tail(data))
       IN IF first.threw THEN [threw |-> TRUE, docs |-> <<>>]
          ELSE [threw |-> rest.threw,
                docs |-> IF rest.threw THEN <<>> ELSE first.docs \o rest.docs]

TransformPdfDataCall ==
  /\ call.fn = "transformPdfData"
  /\ ret = NoCall
  /\ LET r == transformPdfDataToElasticsearchDocuments(call.data)
     IN ret' = [fn |-> "transformPdfData", threw |-> r.threw, docs |-> r.docs]
  /\ UNCHANGED <<call, pipelineVars>>

NextEtl == NormalizeCall \/ TransformTableCall \/ TransformPdfDataCall

SpecEtl == InitEtl /\ [][NextEtl]_vars

\* The number of normalized, non-empty header tokens of a table.
HeaderTokens(title) ==
  Cardinality({i \in 1..Len(title) : normalizeColumnName(title[i]) # <<>>})

\* C19: every row of table_structured has exactly as many keys as the
\* table has normalized, non-empty header tokens, whatever the length of
\* the row.
C19_RowKeysMatchHeaderTokens ==
  ret.fn = "transformTable" =>
     \A r \in 1..Len(ret.rows) :
        Cardinality(DOMAIN ret.rows[r].row) = HeaderTokens(call.title)

\* C20: normalizing a normalized column name changes nothing.
C20_NormalizeIdempotent ==
  ret.fn = "normalizeColumnName" => ret.twice = ret.once

\* C20 witness: a header with a special character, an underscore and an
\* upper-case letter has been normalized.
C20_Witness ==
  /\ ret.fn = "normalizeColumnName"
  /\ call.header = <<"$", "_", "A">>
  /\ ret.once = <<"a">>

KnownTypes == {"paragraph", "table", "image"}

\* The content items of the call that have one of the three known types.
KnownItems == SelectSeq(call.data, LAMBDA item : item.type \in KnownTypes)

\* C21: the transform raises no error; its result holds exactly one
\* document for every item of type paragraph, table or image, in the order
\* of the items, and none for an item of another type; a document has
\* table_structured exactly when it comes from a table item.
C21_OneDocumentPerKnownItem ==
  ret.fn = "transformPdfData" =>
     /\ ~ret.threw
     /\ Len(ret.docs) = Len(KnownItems)
     /\ \A i \in 1..Len(ret.docs) :
          /\ ret.docs[i].type = KnownItems[i].type
          /\ ret.docs[i].title = FlatTitle(KnownItems[i])
          /\ ret.docs[i].page_number = BaseDoc(KnownItems[i]).page_number
          /\ "table_structured" \in DOMAIN ret.docs[i]
                <=> KnownItems[i].type = "table"

\* C21 witness: a table, an item of an unknown type and a paragraph, in
\* that order, gave a table document followed by a paragraph document.
C21_Witness ==
  /\ ret.fn = "transformPdfData"
  /\ Len(call.data) = 3
  /\ call.data[1].type = "table" /\ call.data[1].content # <<>>
  /\ call.data[2].type = "chart"
  /\ call.data[3].type = "paragraph"
  /\ Len(ret.docs) = 2
  /\ Len(ret.docs[1].table_structured) = 2
  /\ ret.docs[1].text = "x\n x | x | x"
  /\ ret.docs[2].type = "paragraph"

\* ---- Content Extractor: parseFullPDF ----

\* The lines of the extracted text, by what the table heuristics see in
\* them: the header signature 'IDProduct NameUnits SoldRevenue'; a record
\* line (digits followed by more than 10 characters); a short record line
\* (digits followed by at most 10 characters); a blank line; a line that
\* contains 'Figure'; a line of three or more segments separated by runs
\* of two or more spaces; any other line.
LineKinds == {"header", "row", "short", "blank", "figure", "cols", "prose"}

\* The inputs of one call: the lines of data.text, and grid, the lines
\* whose content pdf-table-extractor returned as a table (empty: it found
\* no table or failed).
ParseCalls ==
  {[fn |-> "parseFullPDF", lines |-> l, grid |-> g] :
     l \in SeqsUpTo(LineKinds, MaxLines), g \in {{}, {1}, {2}}}

\* textLines.findIndex(line => line.includes(<header signature>)), 0 for -1.
RECURSIVE FindHeader(_, _)
FindHeader(lines, i) ==
  IF i > Len(lines) THEN 0
  ELSE IF lines[i] = "header" THEN i
  ELSE FindHeader(lines, i + 1)

\* The loop over the lines after the header: record lines are collected
\* until a blank line, a figure line, a short record line or a line that
\* is no record; end is the first line that stays in the text.
RECURSIVE ScanRows(_, _, _, _)
ScanRows(lines, i, rows, end) ==
  IF i > Len(lines) THEN [rows |-> rows, end |-> end]
  ELSE IF lines[i] = "row" THEN ScanRows(lines, i + 1, Append(rows, i), i + 1)
  ELSE [rows |-> rows, end |-> i]

\* The lines i..j of the text, as line numbers.
LineRange(i, j) == [k \in 1..(IF j >= i THEN j - i + 1 ELSE 0) |-> i + k - 1]

ParseResult(stage, header, rows, text) ==
  [fn |-> "parseFullPDF", stage |-> stage, header |-> header, rows |-> rows,
   text |-> text]

\* parseFullPDF: the stage that produced result.tables (0: none), the
\* lines that became the header and the rows of the table, and the lines
\* of result.text. Only the header-signature stage reassigns
\* extractedText.
parseFullPDF(c) ==
  LET n == Len(c.lines)
      all == LineRange(1, n)
      start == FindHeader(c.lines, 1)
      scan == ScanRows(c.lines, start + 1, <<>>, start)
      cols == SelectSeq(all, LAMBDA i : c.lines[i] = "cols")
  IN IF \E i \in c.grid : i <= n
     THEN ParseResult(1, {}, SelectSeq(all, LAMBDA i : i \in c.grid), all)
     ELSE IF start # 0 /\ scan.rows # <<>>
          THEN ParseResult(2, {start}, scan.rows,
                           LineRange(1, start - 1) \o LineRange(scan.end, n))
          ELSE IF cols # <<>>
               THEN ParseResult(3, {Head(cols)}, Tail(cols), all)
               ELSE ParseResult(0, {}, <<>>, all)

\* ---- Structurer: convertToStructuredJSON ----

\* A non-empty, trimmed line of the text, by what the Structurer tests:
\* it is one of the known titles; it starts with 'Figure '; it is shorter
\* than 50 characters; its last character ("." , "!" for ! or ?, "," for
\* , or ;, "" for any other); it contains ' a ' or ' the '; it contains
\* ' and '.
TextLine(known, figure, short, last, aThe, and) ==
  [known |-> known, figure |-> figure, short |-> short, last |-> last,
   aThe |-> aThe, and |-> and]

\* The lines tried: a known title, a figure caption, a short heading, a
\* long sentence, a short exclamation, a short line that ends with a
\* comma, and a short line that contains ' and '.
TextLineSamples ==
  {TextLine(TRUE, FALSE, TRUE, "", FALSE, FALSE),
   TextLine(FALSE, TRUE, TRUE, "", FALSE, FALSE),
   TextLine(FALSE, FALSE, TRUE, "", FALSE, FALSE),
   TextLine(FALSE, FALSE, FALSE, ".", TRUE, FALSE),
   TextLine(FALSE, FALSE, TRUE, "!", FALSE, FALSE),
   TextLine(FALSE, FALSE, TRUE, ",", FALSE, FALSE),
   TextLine(FALSE, FALSE, TRUE, "", FALSE, TRUE)}

StructureCalls ==
  {[fn |-> "convertToStructuredJSON", lines |-> l] :
     l \in SeqsUpTo(TextLineSamples, MaxLines)}

isKnownTitle(line) == line.known
isFigureCaption(line) == line.figure
isPotentialTitle(line) ==
  line.short /\ line.last \notin {".", ","} /\ ~line.aThe /\ ~line.and

\* line.endsWith('.') || line.endsWith('!') || line.endsWith('?')
EndsSentence(line) == line.last \in {".", "!"}

\* The test applied to the line after a sentence terminator.
nextLineIsTitle(line) ==
  line.known \/ (line.short /\ line.last # "." /\ ~line.aThe)

\* A content item: the lines it was made of, the line of its title (0:
\* none) and what closed it.
StructuredItem(type, lines, title, closedBy) ==
  [type |-> type, lines |-> lines, title |-> title, closedBy |-> closedBy]

\* The loop of convertToStructuredJSON from line i on, with the lines of
\* currentParagraph, the line of currentTitle, the items pushed so far and
\* the branch each earlier line took; after the last line a remaining
\* paragraph is pushed.
RECURSIVE StructureLines(_, _, _, _, _, _)
StructureLines(lines, i, para, title, items, class) ==
  IF i > Len(lines)
  THEN [fn |-> "convertToStructuredJSON",
        items |-> IF para # <<>>
                  THEN Append(items, StructuredItem("paragraph", para, title,
                                                    "end"))
                  ELSE items,
        class |-> class]
  ELSE LET line == lines[i] IN
    IF isFigureCaption(line)
    THEN StructureLines(lines, i + 1, para, 0,
                        Append(items, StructuredItem("image", <<i>>, 0,
                                                     "caption")),
                        Append(class, "caption"))
    ELSE IF isKnownTitle(line) \/ (isPotentialTitle(line) /\ para = <<>>)
    THEN StructureLines(lines, i + 1, <<>>, i,
                        IF para # <<>>
                        THEN Append(items, StructuredItem("paragraph", para,
                                                          title, "title"))
                        ELSE items,
                        Append(class, "title"))
    ELSE IF EndsSentence(line)
            /\ (i + 1 > Len(lines) \/ nextLineIsTitle(lines[i + 1]))
    THEN StructureLines(lines, i + 1, <<>>, 0,
                        Append(items, StructuredItem("paragraph",
                                                     Append(para, i), title,
                                                     "lookahead")),
                        Append(class, "text"))
    ELSE StructureLines(lines, i + 1, Append(para, i), title, items,
                        Append(class, "text"))

convertToStructuredJSON(lines) == StructureLines(lines, 1, <<>>, 0, <<>>, <<>>)

InitParser ==
  /\ InitPipeline
  /\ call \in ParseCalls \cup StructureCalls
  /\ ret = NoCall

ConvertToStructuredJSONCall ==
  /\ call.fn = "convertToStructuredJSON"
  /\ ret = NoCall
  /\ ret' = convertToStructuredJSON(call.lines)
  /\ UNCHANGED <<call, pipelineVars>>

ParseFullPDFCall ==
  /\ call.fn = "parseFullPDF"
  /\ ret = NoCall
  /\ ret' = parseFullPDF(call)
  /\ UNCHANGED <<call, pipelineVars>>

NextParser == ParseFullPDFCall \/ ConvertToStructuredJSONCall

SpecParser == InitParser /\ [][NextParser]_vars

\* The lines of the returned text.
TextLines == {ret.text[i] : i \in 1..Len(ret.text)}

\* C22: whichever stage produced the table, no line that became a row of
\* the table is a line of the returned text.
C22_ConsumedLinesRemoved ==
  (ret.fn = "parseFullPDF" /\ ret.stage # 0) =>
     \A i \in 1..Len(ret.rows) : ret.rows[i] \notin TextLines

\* C23: a paragraph closed at a sentence terminator is followed by no line
\* or by a line that the Structurer treats as a title.
C23_ClosedOnlyBeforeTitle ==
  ret.fn = "convertToStructuredJSON" =>
     \A k \in 1..Len(ret.items) :
        ret.items[k].closedBy = "lookahead" =>
           LET l == ret.items[k].lines[Len(ret.items[k].lines)]
           IN l = Len(call.lines) \/ ret.class[l + 1] = "title"

====
